---- MODULE Spec2Model ----
(***************************************************************************)
(* A model of lib/Crypto/Util/asn1.py: the DER length codec, the generic   *)
(* TLV object (DerObject), the INTEGER codec (DerInteger) and the SEQUENCE *)
(* codec (DerSequence).                                                    *)
(*                                                                         *)
(* A byte string is a sequence of numbers in 0..255.  A method of the      *)
(* source is an operator that takes the object's fields (self) and the     *)
(* arguments and returns the fields after the call together with the       *)
(* returned value and the exception raised, and an action that applies     *)
(* that operator to the instance held in the state.                        *)
(***************************************************************************)
EXTENDS Integers, Sequences, FiniteSets, TLC

VARIABLES
    obj,    \* a DerObject instance:   [typeTag, payload]
    int,    \* a DerInteger instance:  [typeTag, payload, value]
    dec,    \* a second DerInteger instance, the target of decode
    sq,     \* a DerSequence instance: [typeTag, _seq]; see Held below
    call,   \* the call in progress or last completed: arguments and outcome
    calls   \* how many times encode or decode of sq has been called

vars == <<obj, int, dec, sq, call, calls>>

(***************************************************************************)
(* Bounds of the model.                                                    *)
(***************************************************************************)
MaxLong == 16777216     \* Python longs are unbounded; values from here on are held as MaxLong
MaxPayloadLen == 66000   \* _lengthOctets is applied to 0..MaxPayloadLen
MaxLenField == 3        \* _decodeLen is applied to buffers of at most this many bytes
MaxHdr == 3             \* DerObject.decode: leading bytes chosen freely
MaxFill == 2            \* DerObject.decode: short runs of filler bytes after them
MaxInt == 33000         \* DerInteger is constructed with a value in 0..MaxInt
MaxSeqLen == 2          \* DerSequence: the list is built of at most this many items
MaxCalls == 2           \* DerSequence: encode and decode are called at most this often
MaxElems == 2           \* DerSequence.decode: sub-elements of a crafted buffer

(***************************************************************************)
(* Exceptions.  The source raises ValueError with a message, or lets an    *)
(* IndexError escape; err holds the message ("" when the call returned).   *)
(* The names are the error kinds of the specification.                     *)
(***************************************************************************)
NoError == ""
IndexError == "IndexError"
TypeError == "TypeError"
UnsupportedTag == "Unsupported DER tag"
InvalidLength == "Not a DER length tag."
TrailingData == "Not a DER structure"
ShortBuffer == "Not a valid DER SEQUENCE."
MalformedSequence == "Not a valid DER SEQUENCE."
WrongTagInteger == "Not a DER INTEGER."
WrongTagSequence == "Not a DER SEQUENCE."
NegativeInteger == "Negative INTEGER."
EncodingError == "Trying to DER encode an unknown object"

(***************************************************************************)
(* Tags (DerObject.typeTags) and the value of an unset tag.                *)
(***************************************************************************)
SEQUENCE == 48
BIT_STRING == 3
INTEGER == 2
None == -1

(***************************************************************************)
(* Python's s[a:b] for 0 <= a, 0 <= b: the bounds are clipped to the       *)
(* string, never an error.                                                 *)
(***************************************************************************)
Slice(s, a, b) ==
    LET e == IF b < Len(s) THEN b ELSE Len(s)
    IN  IF a >= e THEN <<>> ELSE SubSeq(s, a + 1, e)

(***************************************************************************)
(* Crypto.Util.number.long_to_bytes: the minimal big-endian bytes of n,    *)
(* one zero byte for 0.                                                    *)
(***************************************************************************)
RECURSIVE long_to_bytes(_)
long_to_bytes(n) ==
    IF n < 256 THEN <<n>>
    ELSE Append(long_to_bytes(n \div 256), n % 256)

(***************************************************************************)
(* Crypto.Util.number.bytes_to_long: the big-endian value of s, 0 for the  *)
(* empty string.  A value of MaxLong or more is held as MaxLong.  The      *)
(* value is that of the high half shifted over the low half, so that the   *)
(* evaluation nests to the logarithm of the length.                        *)
(***************************************************************************)
bytes_to_long_shift(hi, lo, k) ==
    IF hi = 0 THEN lo
    ELSE IF k >= 3 \/ lo >= MaxLong THEN MaxLong
    ELSE IF hi >= MaxLong \div (256 ^ k) THEN MaxLong
    ELSE hi * (256 ^ k) + lo

RECURSIVE bytes_to_long(_)
bytes_to_long(s) ==
    IF s = <<>> THEN 0
    ELSE IF Len(s) = 1 THEN s[1]
    ELSE bytes_to_long_shift(bytes_to_long(SubSeq(s, 1, Len(s) \div 2)),
                             bytes_to_long(SubSeq(s, Len(s) \div 2 + 1, Len(s))),
                             Len(s) - Len(s) \div 2)

(***************************************************************************)
(* DerObject._lengthOctets                                                 *)
(***************************************************************************)
_lengthOctets_long(encoding) == <<Len(encoding) + 128>> \o encoding

lengthOctets_threshold128(payloadLen) ==
    IF payloadLen > 128
    THEN _lengthOctets_long(long_to_bytes(payloadLen))
    ELSE <<payloadLen>>

_lengthOctets(payloadLen) ==
    IF payloadLen > 127
    THEN _lengthOctets_long(long_to_bytes(payloadLen))
    ELSE <<payloadLen>>

(***************************************************************************)
(* DerObject._decodeLen: [length, idx, err].  _decodeLen_long is the long  *)
(* form, k = length & 0x7F the number of length bytes announced.           *)
(***************************************************************************)
_decodeLen_long(idx, k, payloadLength) ==
    IF payloadLength <= 127
    THEN [length |-> payloadLength, idx |-> idx, err |-> InvalidLength]
    ELSE [length |-> payloadLength, idx |-> idx + 1 + k, err |-> NoError]

_decodeLen(idx, str) ==
    IF idx >= Len(str)
    THEN [length |-> 0, idx |-> idx, err |-> IndexError]
    ELSE IF str[idx + 1] <= 127
    THEN [length |-> str[idx + 1], idx |-> idx + 1, err |-> NoError]
    ELSE _decodeLen_long(idx, str[idx + 1] % 128,
                         bytes_to_long(Slice(str, idx + 1, idx + 1 + (str[idx + 1] % 128))))

(***************************************************************************)
(* The call record.  A call that has not been made has done = FALSE.       *)
(***************************************************************************)
Call(op, n, idx, buf, strict) ==
    [op |-> op, n |-> n, idx |-> idx, buf |-> buf, strict |-> strict,
     done |-> FALSE, ret |-> 0, out |-> <<>>, pos |-> 0, payload |-> <<>>,
     err |-> NoError]

NoCall == Call("", 0, 0, <<>>, FALSE)

Returned(c, ret, out, pos, err) ==
    [c EXCEPT !.done = TRUE, !.ret = ret, !.out = out, !.pos = pos, !.err = err]

DerObject_init(ASN1Type) == [typeTag |-> ASN1Type, payload |-> <<>>]
DerInteger_init(value) == [typeTag |-> INTEGER, payload |-> <<>>, value |-> value]
DerSequence_init == [typeTag |-> SEQUENCE, payload |-> <<>>, _seq |-> <<>>]

(***************************************************************************)
(* encode and decode of DerSequence write payload before they read it      *)
(* (lines 191 and 95) and the list operations do not touch it, so what it  *)
(* holds between two calls decides nothing.  The instance is held between  *)
(* calls without it; the call record holds the payload the call wrote.     *)
(***************************************************************************)
Held(self) == [typeTag |-> self.typeTag, _seq |-> self._seq]
Loaded(held) == [typeTag |-> held.typeTag, payload |-> <<>>, _seq |-> held._seq]

(***************************************************************************)
(* All byte strings over an alphabet of at most n bytes.                   *)
(***************************************************************************)
RECURSIVE Strings(_, _)
Strings(alphabet, n) ==
    IF n = 0 THEN {<<>>}
    ELSE LET shorter == Strings(alphabet, n - 1)
         IN  shorter \cup {Append(s, b) : s \in shorter, b \in alphabet}

(***************************************************************************)
(* The length codec.  A state of SpecLen holds one call of _lengthOctets   *)
(* or of _decodeLen, chosen at the start; the action makes the call.       *)
(***************************************************************************)
LenBytes == {0, 5, 127, 128, 129, 130, 255}
LenBuffers == Strings(LenBytes, MaxLenField)

InitLen ==
    /\ obj = DerObject_init(None)
    /\ int = DerInteger_init(0)
    /\ dec = DerInteger_init(0)
    /\ sq = Held(DerSequence_init)
    /\ calls = 0
    /\ call \in {Call("_lengthOctets", n, 0, <<>>, FALSE) : n \in 0..MaxPayloadLen}
           \cup {Call("_decodeLen", 0, i, b, FALSE) : i \in 0..MaxLenField, b \in LenBuffers}

LengthOctets ==
    /\ call.op = "_lengthOctets" /\ ~call.done
    /\ call' = Returned(call, 0, _lengthOctets(call.n), 0, NoError)
    /\ UNCHANGED <<obj, int, dec, sq, calls>>

DecodedLen(r) == call' = Returned(call, r.length, <<>>, r.idx, r.err)

DecodeLen ==
    /\ call.op = "_decodeLen" /\ ~call.done
    /\ DecodedLen(_decodeLen(call.idx, call.buf))
    /\ UNCHANGED <<obj, int, dec, sq, calls>>

NextLen == LengthOctets \/ DecodeLen

SpecLen == InitLen /\ [][NextLen]_vars

(***************************************************************************)
(* C9: _lengthOctets(n) is the single byte n for n <= 127 and otherwise    *)
(* the byte 0x80|k followed by the k big-endian bytes of n, k the smallest *)
(* count that holds n (the first of them is not zero); 127 -> 7F,          *)
(* 128 -> 81 80, 255 -> 81 FF, 256 -> 82 01 00.                            *)
(***************************************************************************)
RECURSIVE BigEndian(_, _)
BigEndian(s, i) == IF i = 0 THEN 0 ELSE BigEndian(s, i - 1) * 256 + s[i]

IsByteString(s) == \A i \in 1..Len(s) : s[i] \in 0..255

C9_LengthOctets ==
    (call.op = "_lengthOctets" /\ call.done) =>
        /\ IsByteString(call.out)
        /\ call.n <= 127 => call.out = <<call.n>>
        /\ call.n > 127 =>
              /\ Len(call.out) >= 2
              /\ call.out[1] = 128 + (Len(call.out) - 1)
              /\ call.out[2] # 0
              /\ BigEndian(Tail(call.out), Len(call.out) - 1) = call.n
        /\ call.n = 127 => call.out = <<127>>
        /\ call.n = 128 => call.out = <<129, 128>>
        /\ call.n = 255 => call.out = <<129, 255>>
        /\ call.n = 256 => call.out = <<130, 1, 0>>

C9_Witness ==
    /\ call.op = "_lengthOctets" /\ call.done
    /\ call.n = 256 /\ call.out = <<130, 1, 0>>

(***************************************************************************)
(* C6: _decodeLen accepts canonical length fields only: whenever it        *)
(* returns (n, nextIdx), the bytes str[idx:nextIdx] are _lengthOctets(n).  *)
(***************************************************************************)
C6_CanonicalOnly ==
    (call.op = "_decodeLen" /\ call.done /\ call.err = NoError) =>
        Slice(call.buf, call.idx, call.pos) = _lengthOctets(call.ret)

(***************************************************************************)
(* DerObject.encode: [self, out, err].  A tag that was never set (None)    *)
(* cannot be concatenated with a string.                                   *)
(***************************************************************************)
DerObject_encode(self) ==
    IF self.typeTag = None
    THEN [self |-> self, out |-> <<>>, err |-> TypeError]
    ELSE [self |-> self,
          out |-> <<self.typeTag>> \o _lengthOctets(Len(self.payload)) \o self.payload,
          err |-> NoError]

(***************************************************************************)
(* DerObject.decode: [self, ret, err].  The tag is stored before anything  *)
(* is checked; an IndexError inside the try block becomes the ValueError   *)
(* "Not a valid DER SEQUENCE.".  DerObject_decode_payload is the method    *)
(* from the call of _decodeLen on, l what that call returned or raised.    *)
(***************************************************************************)
DerObject_decode_payload_ignoreLeftOvers(self, derEle, noLeftOvers, l) ==
    IF l.err = IndexError
    THEN [self |-> self, ret |-> 0, err |-> ShortBuffer]
    ELSE IF l.err # NoError
    THEN [self |-> self, ret |-> 0, err |-> l.err]
    ELSE [self |-> [self EXCEPT !.payload = Slice(derEle, l.idx, l.idx + l.length)],
          ret |-> l.idx + l.length, err |-> NoError]

DerObject_decode_payload(self, derEle, noLeftOvers, l) ==
    IF l.err = IndexError
    THEN [self |-> self, ret |-> 0, err |-> ShortBuffer]
    ELSE IF l.err # NoError
    THEN [self |-> self, ret |-> 0, err |-> l.err]
    ELSE IF noLeftOvers /\ Len(derEle) # l.idx + l.length
    THEN [self |-> self, ret |-> 0, err |-> TrailingData]
    ELSE [self |-> [self EXCEPT !.payload = Slice(derEle, l.idx, l.idx + l.length)],
          ret |-> l.idx + l.length, err |-> NoError]

DerObject_decode(self, derEle, noLeftOvers) ==
    IF Len(derEle) = 0
    THEN [self |-> self, ret |-> 0, err |-> ShortBuffer]
    ELSE IF derEle[1] % 32 = 31
    THEN [self |-> [self EXCEPT !.typeTag = derEle[1]], ret |-> 0, err |-> UnsupportedTag]
    ELSE DerObject_decode_payload([self EXCEPT !.typeTag = derEle[1]], derEle,
                                  noLeftOvers, _decodeLen(1, derEle))

(***************************************************************************)
(* The TLV object.  A state of SpecTlv holds one call of decode on a fresh *)
(* DerObject(), chosen at the start: up to MaxHdr bytes chosen freely,     *)
(* followed by a run of zero bytes that is short or about as long as the   *)
(* shortest payload that needs a long-form length.  The object can be      *)
(* encoded again after the call.                                           *)
(***************************************************************************)
HdrBytes == {0, 1, 2, 31, 48, 127, 128, 129, 130}
FillLens == (0..MaxFill) \cup (126..130)
Fill(m) == [i \in 1..m |-> 0]
TlvBuffers == {h \o Fill(m) : h \in Strings(HdrBytes, MaxHdr), m \in FillLens}

InitTlv ==
    /\ obj = DerObject_init(None)
    /\ int = DerInteger_init(0)
    /\ dec = DerInteger_init(0)
    /\ sq = Held(DerSequence_init)
    /\ calls = 0
    /\ call \in {Call("DerObject.decode", 0, 0, b, s) : b \in TlvBuffers, s \in BOOLEAN}

ObjDecoded(r) ==
    /\ obj' = r.self
    /\ call' = Returned(call, r.ret, <<>>, 0, r.err)

ObjDecode ==
    /\ call.op = "DerObject.decode" /\ ~call.done
    /\ ObjDecoded(DerObject_decode(obj, call.buf, call.strict))
    /\ UNCHANGED <<int, dec, sq, calls>>

ObjEncoded(r) ==
    call' = Returned(Call("DerObject.encode", 0, 0, call.buf, call.strict),
                     0, r.out, 0, r.err)

ObjEncode ==
    /\ call.op = "DerObject.decode" /\ call.done
    /\ ObjEncoded(DerObject_encode(obj))
    /\ UNCHANGED <<obj, int, dec, sq, calls>>

NextTlv == ObjDecode \/ ObjEncode

SpecTlv == InitTlv /\ [][NextTlv]_vars

(***************************************************************************)
(* b is a complete TLV: a supported tag, the canonical length of what      *)
(* follows, and what follows.  The first byte of a length field tells how  *)
(* long the field is.  TlvPayload(b) is what follows the length field.     *)
(***************************************************************************)
TlvHeaderLen(b) == IF b[2] < 128 THEN 2 ELSE 2 + (b[2] - 128)

IsTlv(b) ==
    /\ Len(b) >= 2
    /\ b[1] % 32 # 31
    /\ TlvHeaderLen(b) <= Len(b)
    /\ SubSeq(b, 2, TlvHeaderLen(b)) = _lengthOctets(Len(b) - TlvHeaderLen(b))

TlvPayload(b) == SubSeq(b, TlvHeaderLen(b) + 1, Len(b))

(***************************************************************************)
(* C5: for a buffer made of a valid TLV followed by at least one more      *)
(* byte, decode with noLeftOvers fails with "Not a DER structure", and     *)
(* without it succeeds, stores the tag and the payload of the TLV and      *)
(* returns the index of the first byte after the TLV; for a valid TLV and  *)
(* nothing more both succeed and return len(buffer).                       *)
(***************************************************************************)
DecodedAs(tlv) ==
    IF Len(tlv) < Len(call.buf) /\ call.strict
    THEN call.err = TrailingData
    ELSE /\ call.err = NoError
         /\ obj.typeTag = tlv[1]
         /\ obj.payload = TlvPayload(tlv)
         /\ call.ret = Len(tlv)
         /\ Slice(call.buf, call.ret, Len(call.buf))
              = SubSeq(call.buf, Len(tlv) + 1, Len(call.buf))

C5_StrictLenient ==
    (call.op = "DerObject.decode" /\ call.done) =>
        \A n \in 2..Len(call.buf) :
            IsTlv(SubSeq(call.buf, 1, n)) => DecodedAs(SubSeq(call.buf, 1, n))

C5_Witness ==
    /\ call.op = "DerObject.decode" /\ call.done /\ ~call.strict
    /\ call.err = NoError
    /\ Len(call.buf) = 132 /\ call.ret = 131
    /\ IsTlv(SubSeq(call.buf, 1, 131))
    /\ Len(obj.payload) = 128

(***************************************************************************)
(* C3: decode never succeeds on a truncated buffer, with or without        *)
(* noLeftOvers: a call that returns has stored exactly the declared number *)
(* of payload bytes and returns an index that is at most len(buffer).      *)
(***************************************************************************)
C3_NoTruncatedSuccess ==
    (call.op = "DerObject.decode" /\ call.done /\ call.err = NoError) =>
        /\ call.ret <= Len(call.buf)
        /\ Len(obj.payload) = _decodeLen(1, call.buf).length

(***************************************************************************)
(* DerInteger.encode: [self, out, err].  DerInteger_payload is the payload *)
(* made of the bytes long_to_bytes returned.                               *)
(***************************************************************************)
DerInteger_payload_padAbove128(minimal) ==
    IF minimal[1] > 128 THEN <<0>> \o minimal ELSE minimal

DerInteger_payload(minimal) ==
    IF minimal[1] > 127 THEN <<0>> \o minimal ELSE minimal

DerInteger_encode(self) ==
    DerObject_encode([self EXCEPT !.payload = DerInteger_payload(long_to_bytes(self.value))])

(***************************************************************************)
(* DerInteger.decode: [self, ret, err].  DerInteger_decode_value is the    *)
(* method after the call of DerObject.decode, r what that call returned or *)
(* raised.  Reading the first byte of an empty payload raises an           *)
(* IndexError that nothing here catches.                                   *)
(***************************************************************************)
DerInteger_decode_value_skipFirstByte(r) ==
    IF r.err # NoError THEN r
    ELSE IF r.self.typeTag # INTEGER
    THEN [r EXCEPT !.err = WrongTagInteger]
    ELSE IF Len(r.self.payload) = 0
    THEN [r EXCEPT !.err = IndexError]
    ELSE IF r.self.payload[1] > 127
    THEN [r EXCEPT !.err = NegativeInteger]
    ELSE [r EXCEPT !.self.value = bytes_to_long(Tail(r.self.payload))]

DerInteger_decode_value(r) ==
    IF r.err # NoError THEN r
    ELSE IF r.self.typeTag # INTEGER
    THEN [r EXCEPT !.err = WrongTagInteger]
    ELSE IF Len(r.self.payload) = 0
    THEN [r EXCEPT !.err = IndexError]
    ELSE IF r.self.payload[1] > 127
    THEN [r EXCEPT !.err = NegativeInteger]
    ELSE [r EXCEPT !.self.value = bytes_to_long(r.self.payload)]

DerInteger_decode(self, derEle, noLeftOvers) ==
    DerInteger_decode_value(DerObject_decode(self, derEle, noLeftOvers))

(***************************************************************************)
(* The INTEGER codec.  SpecInt starts with int = DerInteger(v) and         *)
(* dec = DerInteger(); int is encoded, and dec decodes what arrives: the   *)
(* bytes int.encode() returned, or those bytes with a byte appended, the   *)
(* last byte missing, another tag, or the sign bit of the payload set.     *)
(***************************************************************************)
Received(out) ==
    {out,
     out \o <<0>>,
     SubSeq(out, 1, Len(out) - 1),
     <<SEQUENCE>> \o Tail(out),
     [out EXCEPT ![3] = 128 + (out[3] % 128)]}

InitInt ==
    /\ obj = DerObject_init(None)
    /\ int \in {DerInteger_init(v) : v \in 0..MaxInt}
    /\ dec = DerInteger_init(0)
    /\ sq = Held(DerSequence_init)
    /\ calls = 0
    /\ call = NoCall

IntEncoded(r) ==
    /\ int' = r.self
    /\ call' = Returned(Call("DerInteger.encode", 0, 0, <<>>, FALSE), 0, r.out, 0, r.err)

IntEncode ==
    /\ call.op = ""
    /\ IntEncoded(DerInteger_encode(int))
    /\ UNCHANGED <<obj, dec, sq, calls>>

IntDecoded(derEle, noLeftOvers, r) ==
    /\ dec' = r.self
    /\ call' = Returned(Call("DerInteger.decode", 0, 0, derEle, noLeftOvers),
                        r.ret, <<>>, 0, r.err)

IntDecode ==
    /\ call.op = "DerInteger.encode" /\ call.done /\ call.err = NoError
    /\ \E derEle \in Received(call.out), noLeftOvers \in BOOLEAN :
          IntDecoded(derEle, noLeftOvers, DerInteger_decode(dec, derEle, noLeftOvers))
    /\ UNCHANGED <<obj, int, sq, calls>>

NextInt == IntEncode \/ IntDecode

SpecInt == InitInt /\ [][NextInt]_vars

(***************************************************************************)
(* C8: DerInteger.encode returns the tag 0x02, the canonical length and a  *)
(* payload that is the minimal big-endian bytes of the value with one 0x00 *)
(* before them exactly when their first byte has its top bit set: the      *)
(* payload is not empty, its first byte is below 0x80, and a leading 0x00  *)
(* is followed by a byte with the top bit set; 128 encodes as 02 02 00 80  *)
(* and 0 as 02 01 00.                                                      *)
(***************************************************************************)
IsIntegerPayload(p, value) ==
    /\ Len(p) >= 1
    /\ p[1] < 128
    /\ (p[1] = 0 /\ Len(p) > 1) => p[2] >= 128
    /\ BigEndian(p, Len(p)) = value

C8_IntegerEncoding ==
    (call.op = "DerInteger.encode" /\ call.done) =>
        /\ call.err = NoError
        /\ IsByteString(call.out)
        /\ IsIntegerPayload(int.payload, int.value)
        /\ Len(int.payload) <= 127
        /\ call.out = <<2, Len(int.payload)>> \o int.payload
        /\ int.value = 0 => call.out = <<2, 1, 0>>
        /\ int.value = 128 => call.out = <<2, 2, 0, 128>>

C8_Witness ==
    /\ call.op = "DerInteger.encode" /\ call.done
    /\ int.value = 128 /\ call.out = <<2, 2, 0, 128>>

(***************************************************************************)
(* C7: decoding the bytes returned by DerInteger(v).encode() with          *)
(* noLeftOvers set succeeds, sets value to v and returns the length of     *)
(* the encoding.                                                           *)
(***************************************************************************)
C7_IntegerRoundTrip ==
    (/\ call.op = "DerInteger.decode" /\ call.done /\ call.strict
     /\ call.buf = <<2, Len(int.payload)>> \o int.payload) =>
        /\ call.err = NoError
        /\ dec.value = int.value
        /\ call.ret = Len(call.buf)

C7_Witness ==
    /\ call.op = "DerInteger.decode" /\ call.done /\ call.strict
    /\ call.buf = <<2, 3, 0, 128, 0>>
    /\ int.value = 32768 /\ dec.value = 32768
    /\ call.ret = 5

(***************************************************************************)
(* Items of a DerSequence: a Python integer, a byte string, or an object   *)
(* that is neither (None).                                                 *)
(***************************************************************************)
IntegerItem(v) == [kind |-> "int", value |-> v, bytes |-> <<>>]
RawItem(b) == [kind |-> "str", value |-> 0, bytes |-> b]
UnknownItem == [kind |-> "other", value |-> 0, bytes |-> <<>>]

(***************************************************************************)
(* DerSequence.encode: [self, out, err].  The payload is rebuilt item by   *)
(* item; an item that is neither a string nor an integer stops the loop.   *)
(***************************************************************************)
RECURSIVE EncodeItems_overwrite(_, _, _)
EncodeItems_overwrite(seq, i, payload) ==
    IF i > Len(seq) THEN [payload |-> payload, err |-> NoError]
    ELSE IF seq[i].kind = "str"
    THEN EncodeItems_overwrite(seq, i + 1, seq[i].bytes)
    ELSE IF seq[i].kind = "int"
    THEN EncodeItems_overwrite(seq, i + 1,
                     payload \o DerInteger_encode(DerInteger_init(seq[i].value)).out)
    ELSE [payload |-> payload, err |-> EncodingError]

RECURSIVE EncodeItems(_, _, _)
EncodeItems(seq, i, payload) ==
    IF i > Len(seq) THEN [payload |-> payload, err |-> NoError]
    ELSE IF seq[i].kind = "str"
    THEN EncodeItems(seq, i + 1, payload \o seq[i].bytes)
    ELSE IF seq[i].kind = "int"
    THEN EncodeItems(seq, i + 1,
                     payload \o DerInteger_encode(DerInteger_init(seq[i].value)).out)
    ELSE [payload |-> payload, err |-> EncodingError]

DerSequence_encode_tlv(self, e) ==
    IF e.err # NoError
    THEN [self |-> [self EXCEPT !.payload = e.payload], out |-> <<>>, err |-> e.err]
    ELSE DerObject_encode([self EXCEPT !.payload = e.payload])

DerSequence_encode(self) ==
    DerSequence_encode_tlv(self, EncodeItems(self._seq, 1, <<>>))

(***************************************************************************)
(* DerSequence.decode: [self, ret, pos, err], pos the value of idx when    *)
(* the scan of the payload stopped.  ScanPayload is the loop, ScanInteger  *)
(* and ScanOpaque its two branches, d and l what DerInteger.decode and     *)
(* _decodeLen returned or raised.  An IndexError raised while scanning     *)
(* becomes the ValueError "Not a valid DER SEQUENCE."; items are appended  *)
(* to _seq as they are scanned.                                            *)
(***************************************************************************)
RECURSIVE ScanPayload(_, _, _)
RECURSIVE ScanInteger(_, _, _, _)
RECURSIVE ScanOpaque(_, _, _, _)

ScanInteger(payload, idx, seq, d) ==
    IF d.err = IndexError
    THEN [seq |-> seq, idx |-> idx, err |-> MalformedSequence]
    ELSE IF d.err # NoError
    THEN [seq |-> seq, idx |-> idx, err |-> d.err]
    ELSE ScanPayload(payload, idx + d.ret, Append(seq, IntegerItem(d.self.value)))

ScanOpaque(payload, idx, seq, l) ==
    IF l.err = IndexError
    THEN [seq |-> seq, idx |-> idx, err |-> MalformedSequence]
    ELSE IF l.err # NoError
    THEN [seq |-> seq, idx |-> idx, err |-> l.err]
    ELSE ScanPayload(payload, l.idx + l.length,
                     Append(seq, RawItem(Slice(payload, idx, l.idx + l.length))))

ScanPayload(payload, idx, seq) ==
    IF idx >= Len(payload) THEN [seq |-> seq, idx |-> idx, err |-> NoError]
    ELSE IF payload[idx + 1] = INTEGER
    THEN ScanInteger(payload, idx, seq,
                     DerInteger_decode(DerInteger_init(0),
                                       Slice(payload, idx, Len(payload)), FALSE))
    ELSE ScanOpaque(payload, idx, seq, _decodeLen(idx + 1, payload))

DerSequence_decode_scanned(r, sc) ==
    [self |-> [r.self EXCEPT !._seq = sc.seq],
     ret |-> IF sc.err = NoError THEN r.ret ELSE 0,
     pos |-> sc.idx, err |-> sc.err]

DerSequence_decode_scan(r) ==
    IF r.err # NoError
    THEN [self |-> r.self, ret |-> 0, pos |-> 0, err |-> r.err]
    ELSE IF r.self.typeTag # SEQUENCE
    THEN [self |-> r.self, ret |-> 0, pos |-> 0, err |-> WrongTagSequence]
    ELSE DerSequence_decode_scanned(r, ScanPayload(r.self.payload, 0, r.self._seq))

DerSequence_decode_keepItems(self, derEle, noLeftOvers) ==
    DerSequence_decode_scan(DerObject_decode(self, derEle, noLeftOvers))

DerSequence_decode(self, derEle, noLeftOvers) ==
    DerSequence_decode_scan(
        DerObject_decode([self EXCEPT !._seq = <<>>], derEle, noLeftOvers))

(***************************************************************************)
(* The list operations of DerSequence, on the list alone.                  *)
(***************************************************************************)
__delitem__(seq, n) == SubSeq(seq, 1, n) \o SubSeq(seq, n + 2, Len(seq))
__setitem__(seq, key, value) == [seq EXCEPT ![key + 1] = value]
Clip(i, lo, hi) == IF i < lo THEN lo ELSE IF i > hi THEN hi ELSE i
__setslice__(seq, i, j, sequence) ==
    SubSeq(seq, 1, Clip(i, 0, Len(seq))) \o sequence
        \o SubSeq(seq, Clip(j, Clip(i, 0, Len(seq)), Len(seq)) + 1, Len(seq))
__delslice__(seq, i, j) == __setslice__(seq, i, j, <<>>)

(***************************************************************************)
(* The SEQUENCE codec.  SpecSeq starts with sq = DerSequence().  A client  *)
(* builds the list (append, set and delete by index and by range), then    *)
(* calls encode and decode, MaxCalls times at most.  decode is given the   *)
(* bytes the preceding encode returned or a crafted buffer: a SEQUENCE of  *)
(* up to MaxElems sub-elements, some of them malformed, or one of a few    *)
(* buffers that are wrong in their first bytes or have a byte too many.    *)
(***************************************************************************)
Items ==
    {IntegerItem(5), IntegerItem(128),
     RawItem(<<3, 1, 170>>),                \* a complete BIT STRING element
     RawItem(<<3, 129, 128>> \o Fill(128)), \* one with a long-form length
     RawItem(<<170, 187>>),                 \* two bytes that are no complete element
     RawItem(<<2, 1, 5>>),                  \* a complete INTEGER element, as a string
     UnknownItem}

SubElements ==
    {<<2, 1, 5>>,       \* INTEGER 5
     <<2, 1, 128>>,     \* INTEGER with the sign bit set
     <<2, 3, 1>>,       \* INTEGER that declares 3 bytes and has 1
     <<3, 1, 170>>,     \* BIT STRING, carried as it is
     <<4, 5, 170>>}     \* element that declares 5 bytes and has 1

RECURSIVE Bodies(_)
Bodies(n) ==
    IF n = 0 THEN {<<>>}
    ELSE LET shorter == Bodies(n - 1)
         IN  shorter \cup {b \o e : b \in shorter, e \in SubElements}

SeqBuffers ==
    {<<SEQUENCE>> \o _lengthOctets(Len(b)) \o b : b \in Bodies(MaxElems)}
    \cup {<<>>,                             \* nothing
          <<SEQUENCE>>,                     \* a tag and no length
          <<31, 0>>,                        \* a high-tag-number tag
          <<INTEGER, 1, 5>>,                \* an INTEGER, not a SEQUENCE
          <<SEQUENCE, 129, 5>>,             \* a long-form length below 128
          <<SEQUENCE, 4, 2, 1, 5>>,         \* declares 4 bytes and has 3
          <<SEQUENCE, 3, 2, 1, 5, 0>>,      \* a SEQUENCE and one more byte
          <<SEQUENCE, 5, 2, 1, 5, 3, 129>>, \* last sub-element: no length bytes
          <<SEQUENCE, 4, 2, 1, 5, 3>>,      \* last sub-element: a tag alone
          <<SEQUENCE, 2, 2, 0>>}            \* an INTEGER with no payload

InitSeq ==
    /\ obj = DerObject_init(None)
    /\ int = DerInteger_init(0)
    /\ dec = DerInteger_init(0)
    /\ sq = Held(DerSequence_init)
    /\ calls = 0
    /\ call = NoCall

ListCall(op, err) == Returned(Call(op, 0, 0, <<>>, FALSE), 0, <<>>, 0, err)

SeqAppend ==
    /\ calls = 0
    /\ Len(sq._seq) < MaxSeqLen
    /\ \E item \in Items : sq' = [sq EXCEPT !._seq = Append(@, item)]
    /\ call' = ListCall("append", NoError)
    /\ UNCHANGED <<obj, int, dec, calls>>

SeqSetItem ==
    /\ calls = 0
    /\ \E key \in 0..Len(sq._seq), value \in Items :
          IF key < Len(sq._seq)
          THEN /\ sq' = [sq EXCEPT !._seq = __setitem__(@, key, value)]
               /\ call' = ListCall("__setitem__", NoError)
          ELSE /\ sq' = sq
               /\ call' = ListCall("__setitem__", IndexError)
    /\ UNCHANGED <<obj, int, dec, calls>>

SeqDelItem ==
    /\ calls = 0
    /\ \E n \in 0..Len(sq._seq) :
          IF n < Len(sq._seq)
          THEN /\ sq' = [sq EXCEPT !._seq = __delitem__(@, n)]
               /\ call' = ListCall("__delitem__", NoError)
          ELSE /\ sq' = sq
               /\ call' = ListCall("__delitem__", IndexError)
    /\ UNCHANGED <<obj, int, dec, calls>>

SeqSetSlice ==
    /\ calls = 0
    /\ \E i \in 0..Len(sq._seq), j \in 0..Len(sq._seq),
          sequence \in {<<>>} \cup {<<item>> : item \in Items} :
          /\ Len(__setslice__(sq._seq, i, j, sequence)) <= MaxSeqLen
          /\ sq' = [sq EXCEPT !._seq = __setslice__(@, i, j, sequence)]
    /\ call' = ListCall("__setslice__", NoError)
    /\ UNCHANGED <<obj, int, dec, calls>>

SeqDelSlice ==
    /\ calls = 0
    /\ \E i \in 0..Len(sq._seq), j \in 0..Len(sq._seq) :
          sq' = [sq EXCEPT !._seq = __delslice__(@, i, j)]
    /\ call' = ListCall("__delslice__", NoError)
    /\ UNCHANGED <<obj, int, dec, calls>>

SeqEncoded(r) ==
    /\ sq' = Held(r.self)
    /\ call' = [Returned(Call("DerSequence.encode", 0, 0, <<>>, FALSE), 0, r.out, 0, r.err)
                EXCEPT !.payload = r.self.payload]

SeqEncode ==
    /\ calls < MaxCalls
    /\ calls' = calls + 1
    /\ SeqEncoded(DerSequence_encode(Loaded(sq)))
    /\ UNCHANGED <<obj, int, dec>>

SeqDecoded(derEle, noLeftOvers, r) ==
    /\ sq' = Held(r.self)
    /\ call' = [Returned(Call("DerSequence.decode", 0, 0, derEle, noLeftOvers),
                         r.ret, <<>>, r.pos, r.err)
                EXCEPT !.payload = r.self.payload]

SeqDecode ==
    /\ calls < MaxCalls
    /\ calls' = calls + 1
    /\ \E derEle \in SeqBuffers \cup (IF call.op = "DerSequence.encode" /\ call.err = NoError
                                      THEN {call.out} ELSE {}),
          noLeftOvers \in BOOLEAN :
          SeqDecoded(derEle, noLeftOvers, DerSequence_decode(Loaded(sq), derEle, noLeftOvers))
    /\ UNCHANGED <<obj, int, dec>>

NextSeq ==
    \/ SeqAppend
    \/ SeqSetItem
    \/ SeqDelItem
    \/ SeqSetSlice
    \/ SeqDelSlice
    \/ SeqEncode
    \/ SeqDecode

SpecSeq == InitSeq /\ [][NextSeq]_vars

(***************************************************************************)
(* b is one complete sub-element that is carried as it is: a tag other     *)
(* than INTEGER, the canonical length of what follows, and what follows.   *)
(***************************************************************************)
IsOpaqueElement(b) ==
    /\ Len(b) >= 2
    /\ b[1] # INTEGER
    /\ TlvHeaderLen(b) <= Len(b)
    /\ SubSeq(b, 2, TlvHeaderLen(b)) = _lengthOctets(Len(b) - TlvHeaderLen(b))

OnlyIntegersAndElements(seq) ==
    \A i \in 1..Len(seq) :
        \/ seq[i].kind = "int"
        \/ seq[i].kind = "str" /\ IsOpaqueElement(seq[i].bytes)

(***************************************************************************)
(* C1, as claimed: for a list of integers and byte strings of any content, *)
(* decoding the bytes encode() returned succeeds and leaves the same list. *)
(***************************************************************************)
C1_AnyBlobRoundTrip ==
    [][(/\ call.op = "DerSequence.encode" /\ call.err = NoError
        /\ call'.op = "DerSequence.decode" /\ call'.buf = call.out)
       => (call'.err = NoError /\ sq'._seq = sq._seq)]_vars

(***************************************************************************)
(* C1, amended: for a DerSequence that was built and not yet decoded into, *)
(* whose list holds integers and byte strings that are each one complete   *)
(* element with a tag other than INTEGER and a canonical length, decoding  *)
(* the bytes encode() returned succeeds, with or without noLeftOvers,      *)
(* returns their length and leaves the same list in the same order.        *)
(***************************************************************************)
C1_ElementRoundTrip ==
    [][(/\ call.op = "DerSequence.encode" /\ call.err = NoError /\ calls = 1
        /\ OnlyIntegersAndElements(sq._seq)
        /\ call'.op = "DerSequence.decode" /\ call'.buf = call.out)
       => (/\ call'.err = NoError
           /\ sq'._seq = sq._seq
           /\ call'.ret = Len(call.out))]_vars

C1_Witness ==
    /\ call.op = "DerSequence.decode" /\ call.err = NoError /\ calls = 2
    /\ call.buf = <<48, 7, 2, 2, 0, 128, 3, 1, 170>>
    /\ call.ret = 9
    /\ sq._seq = <<IntegerItem(128), RawItem(<<3, 1, 170>>)>>

(***************************************************************************)
(* C2, as claimed: whenever DerSequence.decode fails, the list is empty    *)
(* afterwards.                                                             *)
(***************************************************************************)
C2_EmptyAfterFailure ==
    (call.op = "DerSequence.decode" /\ call.done /\ call.err # NoError) =>
        sq._seq = <<>>

(***************************************************************************)
(* C2, amended: whenever DerSequence.decode fails, the list holds nothing  *)
(* from before the call: it is what a new DerSequence() holds after the    *)
(* same failed call, which is nothing when the buffer is rejected before   *)
(* the scan (no bytes, or a first byte other than the SEQUENCE tag) and    *)
(* otherwise the sub-elements scanned before the failing one.              *)
(***************************************************************************)
C2_NothingStaleAfterFailure ==
    (call.op = "DerSequence.decode" /\ call.done /\ call.err # NoError) =>
        /\ sq._seq = DerSequence_decode(DerSequence_init, call.buf, call.strict).self._seq
        /\ (call.buf = <<>> \/ call.buf[1] # SEQUENCE) => sq._seq = <<>>
        /\ call.err \in {UnsupportedTag, TrailingData, WrongTagSequence} => sq._seq = <<>>

C2_Witness ==
    /\ call.op = "DerSequence.decode" /\ call.done /\ calls = 2
    /\ call.err = NegativeInteger
    /\ call.buf = <<48, 6, 2, 1, 5, 2, 1, 128>>
    /\ sq._seq = <<IntegerItem(5)>>

(***************************************************************************)
(* C4: the scan of the payload ends only with idx = len(payload): a decode *)
(* that returns has not stepped over the end of the payload.               *)
(***************************************************************************)
C4_ScanEndsAtPayloadEnd ==
    (call.op = "DerSequence.decode" /\ call.done /\ call.err = NoError) =>
        call.pos = Len(call.payload)

(***************************************************************************)
(* C10: after any operations on a DerSequence, a decode that failed        *)
(* included, the bytes encode() returns are the SEQUENCE tag 0x30, the     *)
(* canonical length of the payload and the payload.                        *)
(***************************************************************************)
C10_EncodeEmitsSequenceTag ==
    (call.op = "DerSequence.encode" /\ call.done /\ call.err = NoError) =>
        call.out = <<48>> \o _lengthOctets(Len(call.payload)) \o call.payload

====
